---- MODULE Spec2Model ----
(***************************************************************************)
(* pytest-flake8: the ignore-pattern matcher (Ignorer) and the lifecycle   *)
(* of a checked-file task (Flake8Item) with its modification-time cache,   *)
(* modelled from src/pytest_flake8.py.                                     *)
(*                                                                         *)
(* Text is modelled as sequences of one-character strings, so that         *)
(* find/split/match are computed as Python computes them.                  *)
(***************************************************************************)
EXTENDS Naturals, Integers, Sequences, FiniteSets, TLC

(***************************************************************************)
(* Bounds of the model.                                                    *)
(***************************************************************************)
\* tokens on all the lines of one flake8-ignore setting (matcher inputs)
MaxTokens == 3
\* lines of one flake8-ignore setting (matcher inputs)
MaxLines == 3
\* modification timestamps are 0..MaxMtime
MaxMtime == 1
\* items collected in one run
MaxItems == 2
\* violation counts reported by the engine are 0..MaxViolations
MaxViolations == 1
\* the longest list of codes handed to check_file on its own
MaxCodes == 2

(***************************************************************************)
(* Python values.                                                          *)
(***************************************************************************)
\* Python's None, and a value that is not None
NoneV == [none |-> TRUE, v |-> <<>>]
Some(x) == [none |-> FALSE, v |-> x]

\* HISTKEY, the key of the persisted store
HISTKEY == <<"f","l","a","k","e","8","/","m","t","i","m","e","s">>

\* os.sep of the host (POSIX)
OsSep == "/"

IsSpace(c) == c \in {" ", "\t"}
IsDigit(c) == c \in {"0","1","2","3","4","5","6","7","8","9"}
C6_IsUpper(c) == c \in {"A","B","C","D","E","F","G","H","I","J","K","L","M",
                     "N","O","P","Q","R","S","T","U","V","W","X","Y","Z"}

\* str.find(ch): the 0-based index of the first ch in s, -1 when there is none
Find(s, ch) ==
  IF \E i \in 1..Len(s) : s[i] = ch
  THEN (CHOOSE i \in 1..Len(s) : s[i] = ch /\ \A j \in 1..(i-1) : s[j] # ch) - 1
  ELSE -1

\* s[:i] for i >= 0
Prefix(s, i) == SubSeq(s, 1, i)

\* s with its leading whitespace removed
RECURSIVE LStrip(_)
LStrip(s) ==
  IF s # <<>> /\ IsSpace(s[1]) THEN LStrip(Tail(s)) ELSE s

\* the length of the leading run of non-whitespace characters of s
RECURSIVE WordLen(_)
WordLen(s) ==
  IF s = <<>> \/ IsSpace(s[1]) THEN 0 ELSE 1 + WordLen(Tail(s))

\* str.split(None, 1): at most two parts, the second kept as it is
Split1(s) ==
  LET t == LStrip(s) IN
  IF t = <<>> THEN <<>>
  ELSE LET n == WordLen(t)
           rest == LStrip(SubSeq(t, n + 1, Len(t)))
       IN IF rest = <<>> THEN << SubSeq(t, 1, n) >>
          ELSE << SubSeq(t, 1, n), rest >>

\* str.split(): the whitespace-separated tokens of s
RECURSIVE SplitAll(_)
SplitAll(s) ==
  LET t == LStrip(s) IN
  IF t = <<>> THEN <<>>
  ELSE LET n == WordLen(t)
       IN << SubSeq(t, 1, n) >> \o SplitAll(SubSeq(t, n + 1, Len(t)))

\* str.replace(a, b) for one-character a and b
Replace(s, a, b) == [i \in 1..Len(s) |-> IF s[i] = a THEN b ELSE s[i]]

\* x in seq
Contains(seq, x) == \E i \in 1..Len(seq) : seq[i] = x

ALL == <<"A","L","L">>

(***************************************************************************)
(* Ignorer: the ignore-pattern matcher.                                    *)
(***************************************************************************)
\* coderex.match(glob): re.match of [EW]\d\d\d at the start of the token
CoderexMatch(g) ==
  /\ Len(g) >= 4
  /\ g[1] \in {"E", "W"}
  /\ IsDigit(g[2]) /\ IsDigit(g[3]) /\ IsDigit(g[4])

\* Mutant of ParseLine: the comment is not cut off
ParseLineKeepComment(rawline) ==
  LET line == rawline
      parts == Split1(line)
      glob1 == IF Len(parts) = 2 THEN Some(parts[1]) ELSE NoneV
      ign1 == IF Len(parts) = 2 THEN parts[2] ELSE line
      isCode == (~glob1.none) /\ glob1.v # <<>> /\ CoderexMatch(glob1.v)
      glob2 == IF isCode THEN NoneV ELSE glob1
      ign2 == IF isCode THEN line ELSE ign1
      toks == SplitAll(ign2)
      ign3 == IF Contains(toks, ALL) THEN NoneV ELSE Some(toks)
  IN [glob |-> glob2, ign |-> ign3]

\* One line of flake8-ignore parsed to its rule (glob, ignlist); the body of
\* the loop of Ignorer.__init__.
ParseLine(rawline) ==
  LET i == Find(rawline, "#")
      line == IF i # -1 THEN Prefix(rawline, i) ELSE rawline
      parts == Split1(line)
      \* glob, ign = line.split(None, 1), or the ValueError branch
      glob1 == IF Len(parts) = 2 THEN Some(parts[1]) ELSE NoneV
      ign1 == IF Len(parts) = 2 THEN parts[2] ELSE line
      isCode == (~glob1.none) /\ glob1.v # <<>> /\ CoderexMatch(glob1.v)
      glob2 == IF isCode THEN NoneV ELSE glob1
      ign2 == IF isCode THEN line ELSE ign1
      toks == SplitAll(ign2)
      ign3 == IF Contains(toks, ALL) THEN NoneV ELSE Some(toks)
      glob3 == IF (~glob2.none) /\ glob2.v # <<>> /\ "/" # OsSep
                  /\ Contains(glob2.v, "/")
               THEN Some(Replace(glob2.v, "/", OsSep)) ELSE glob2
  IN [glob |-> glob3, ign |-> ign3]

\* Ignorer.__init__: self.ignores, one rule per line, in order
IgnorerInit(lines) == [k \in 1..Len(lines) |-> ParseLine(lines[k])]

\* fnmatch.fnmatch(name, pat) with the wildcards * and ?
RECURSIVE GlobMatch(_, _)
GlobMatch(name, pat) ==
  IF pat = <<>> THEN name = <<>>
  ELSE IF pat[1] = "*"
       THEN GlobMatch(name, Tail(pat))
            \/ (name # <<>> /\ GlobMatch(Tail(name), pat))
  ELSE IF pat[1] = "?"
       THEN name # <<>> /\ GlobMatch(Tail(name), Tail(pat))
  ELSE name # <<>> /\ name[1] = pat[1] /\ GlobMatch(Tail(name), Tail(pat))

\* the part of path after its last separator
RECURSIVE Basename(_)
Basename(path) ==
  IF Find(path, OsSep) = -1 THEN path
  ELSE Basename(SubSeq(path, Find(path, OsSep) + 2, Len(path)))

\* path.ext: the basename from its last dot on, empty without a dot
RECURSIVE LastDotSuffix(_)
LastDotSuffix(name) ==
  LET i == Find(name, ".") IN
  IF i = -1 THEN <<>>
  ELSE LET rest == SubSeq(name, i + 2, Len(name))
       IN IF Find(rest, ".") = -1 THEN SubSeq(name, i + 1, Len(name))
          ELSE LastDotSuffix(rest)

Ext(path) == LastDotSuffix(Basename(path))

\* path.fnmatch(glob): a pattern without a separator is matched against the
\* basename, any other against the whole path, anchored by "*" + sep unless
\* it is absolute
PathFnmatch(path, glob) ==
  IF Find(glob, OsSep) = -1 THEN GlobMatch(Basename(path), glob)
  ELSE IF glob[1] = OsSep THEN GlobMatch(path, glob)
  ELSE GlobMatch(path, <<"*", OsSep>> \o glob)

\* "not glob or path.fnmatch(glob)": the rule applies to path
RuleApplies(rule, path) ==
  rule.glob.none \/ rule.glob.v = <<>> \/ PathFnmatch(path, rule.glob.v)

\* Mutant of CallFrom: a suppress-all rule met after codes were accumulated is
\* passed over instead of returned
RECURSIVE CallFromLateAll(_, _, _, _)
CallFromLateAll(ignores, path, k, l) ==
  IF k > Len(ignores) THEN Some(l)
  ELSE IF RuleApplies(ignores[k], path)
       THEN IF ignores[k].ign.none
            THEN IF l = <<>> THEN NoneV
                 ELSE CallFromLateAll(ignores, path, k + 1, l)
            ELSE CallFromLateAll(ignores, path, k + 1, l \o ignores[k].ign.v)
       ELSE CallFromLateAll(ignores, path, k + 1, l)

\* Mutant of CallFrom: a code already in l is not added again
RECURSIVE CallFromDedup(_, _, _, _)
CallFromDedup(ignores, path, k, l) ==
  IF k > Len(ignores) THEN Some(l)
  ELSE IF RuleApplies(ignores[k], path)
       THEN IF ignores[k].ign.none THEN NoneV
            ELSE CallFromDedup(ignores, path, k + 1,
                   l \o SelectSeq(ignores[k].ign.v,
                                  LAMBDA c : ~Contains(l, c)))
       ELSE CallFromDedup(ignores, path, k + 1, l)

\* The loop of Ignorer.__call__ from rule k on, with l accumulated so far
RECURSIVE CallFrom(_, _, _, _)
CallFrom(ignores, path, k, l) ==
  IF k > Len(ignores) THEN Some(l)
  ELSE IF RuleApplies(ignores[k], path)
       THEN IF ignores[k].ign.none THEN NoneV
            ELSE CallFrom(ignores, path, k + 1, l \o ignores[k].ign.v)
       ELSE CallFrom(ignores, path, k + 1, l)

\* Ignorer.__call__(path): None (skip the file) or the list of codes
IgnorerCall(ignores, path) == CallFrom(ignores, path, 1, <<>>)

(***************************************************************************)
(* Inputs of the model: tokens, files.                                     *)
(***************************************************************************)
E501 == <<"E","5","0","1">>
W293 == <<"W","2","9","3">>
F401 == <<"F","4","0","1">>
StarPy == <<"*",".","p","y">>
Hash == <<"#">>
DStar == <<"d","/","*">>
\* a code with a comment right behind it
E501HashALL == E501 \o Hash \o ALL
Tokens == {E501, W293, F401, ALL, StarPy, DStar, Hash, E501HashALL}

FileA == <<"/","r","/","a",".","p","y">>
FileB == <<"/","r","/","d","/","b",".","t","x","t">>
Files == {FileA, FileB}

\* the file whose passes and failures the history variables follow
Tracked == FileA

APy == <<"a",".","p","y">>
ExtPy == <<".","p","y">>
ExtTxt == <<".","t","x","t">>

\* the tokens joined by single spaces into one line
RECURSIVE JoinSp(_)
JoinSp(ts) ==
  IF ts = <<>> THEN <<>>
  ELSE IF Len(ts) = 1 THEN ts[1]
  ELSE ts[1] \o <<" ">> \o JoinSp(Tail(ts))

\* values of the flake8-ignore setting
IgnNone == <<>>
IgnEF == << JoinSp(<<StarPy, E501, F401>>) >>
IgnFE == << JoinSp(<<StarPy, F401, E501>>), JoinSp(<<DStar, ALL>>) >>
IgnEFE == << JoinSp(<<APy, E501, F401>>), JoinSp(<<StarPy, E501>>) >>
IgnAll == << ALL >>

\* values of the other settings: the defaults, every option given with .txt
\* among the extensions, and a complexity threshold that is no number
DefaultSettings ==
  [exts |-> {ExtPy}, maxlength |-> "", maxdoclength |-> "",
   maxcomplexity |-> "", showshource |-> FALSE, statistics |-> FALSE]
FullSettings ==
  [exts |-> {ExtPy, ExtTxt}, maxlength |-> "100", maxdoclength |-> "72",
   maxcomplexity |-> "10", showshource |-> TRUE, statistics |-> TRUE]
BadSettings ==
  [DefaultSettings EXCEPT !.maxcomplexity = "x"]

\* the ini files the runs choose from
IniChoices ==
  { [ignore |-> IgnNone, settings |-> DefaultSettings],
    [ignore |-> IgnEF, settings |-> DefaultSettings],
    [ignore |-> IgnFE, settings |-> DefaultSettings],
    [ignore |-> IgnEFE, settings |-> DefaultSettings],
    [ignore |-> IgnAll, settings |-> DefaultSettings],
    [ignore |-> IgnNone, settings |-> FullSettings],
    [ignore |-> IgnEF, settings |-> FullSettings],
    [ignore |-> IgnFE, settings |-> FullSettings],
    [ignore |-> IgnNone, settings |-> BadSettings] }

(***************************************************************************)
(* State.                                                                  *)
(***************************************************************************)
VARIABLES
  phase,          \* "idle" (no process), "collect", "run"
  option_flake8,  \* config.option.flake8
  has_cache,      \* hasattr(config, 'cache')
  ignorelines,    \* config.getini("flake8-ignore")
  settings,       \* the other ini values
  _flake8ignore,  \* config._flake8ignore.ignores (None while not set)
  _flake8mtimes,  \* config._flake8mtimes: [set, map]
  cache_store,    \* the persisted value under HISTKEY: [set, map]
  mtime,          \* the modification timestamp of each file
  items,          \* the Flake8Items still to finish, in collection order
  finished,       \* the outcome of the item that finished last in this run
  passedNow,      \* the paths with a Passed item in this run
  failed,         \* Tracked has failed and not passed: "thisrun" (in this
                  \* run), "earlier" (in a run since its last pass), "no"
  storeWrites,    \* config.cache.set calls of the current run
  lastExit,       \* how the last run ended
  igpc,           \* matcher harness: "build", "ready"
  query,          \* matcher harness: the last query and its result
  eng             \* check_file harness: the arguments and what the engine got

cfgVars == <<option_flake8, has_cache, settings>>
runVars == <<phase, cfgVars, _flake8mtimes, cache_store, mtime, items,
             finished, passedNow, failed, storeWrites, lastExit>>
ignVars == <<igpc, query>>
engVars == <<eng>>
vars == <<runVars, ignVars, engVars, ignorelines, _flake8ignore>>

EmptyMap == [q \in {} |-> 0]
NoQuery == [has |-> FALSE, path |-> <<>>, result |-> NoneV]

(***************************************************************************)
(* The cache map and its persisted form.                                   *)
(***************************************************************************)
\* [mtime, ignore] and (mtime, ignore): Python keeps a list and a tuple apart
ListOf(m, ign) == [shape |-> "list", mtime |-> m, ign |-> ign]
TupleOf(m, ign) == [shape |-> "tuple", mtime |-> m, ign |-> ign]

\* the default of flake8mtimes.get(path, (0, []))
DefaultOld == TupleOf(0, <<>>)

\* dict.get(key, default)
MapGet(map, key, default) ==
  IF key \in DOMAIN map THEN map[key] ELSE default

\* dict[key] = val
MapSet(map, key, val) ==
  [q \in (DOMAIN map) \cup {key} |-> IF q = key THEN val ELSE map[q]]

\* Mutant of JsonDump: the entries keep the shape they had in memory
JsonDumpKeepShape(map) == map

\* config.cache.set writes JSON: a tuple is written as an array, and an array
\* is read back as a list
JsonDump(map) == [q \in DOMAIN map |-> [map[q] EXCEPT !.shape = "list"]]

\* config.cache.get(HISTKEY, {})
CacheGet == IF cache_store.set THEN cache_store.map ELSE EmptyMap

\* Mutants of SetupSkips: the ignore directive is not compared; the timestamp
\* is not compared; the directives are compared as sets of codes
SetupSkipsMtimeOnly(old, m, ign) == old.shape = "list" /\ old.mtime = m
SetupSkipsIgnoreOnly(old, m, ign) == old.shape = "list" /\ old.ign = ign
SetupSkipsAsSets(old, m, ign) ==
  /\ old.shape = "list" /\ old.mtime = m
  /\ {old.ign[i] : i \in 1..Len(old.ign)} = {ign[i] : i \in 1..Len(ign)}

\* Mutant of SetupSkips: a tuple equals the list of the same elements
SetupSkipsAnyShape(old, m, ign) == old.mtime = m /\ old.ign = ign

\* old == [self._flake8mtime, self.flake8ignore]
SetupSkips(old, m, ign) == old = ListOf(m, ign)

(***************************************************************************)
(* The linting engine (flake8), as check_file sees it.                     *)
(***************************************************************************)
Raised == [raised |-> TRUE, count |-> 0]
Counted(n) == [raised |-> FALSE, count |-> n]
Outcomes == {Raised} \cup {Counted(n) : n \in 0..MaxViolations}

IsInt(str) == str \in {"10"}

\* check_file: the engine raises on a malformed complexity threshold (and may
\* raise for reasons of its own); otherwise it returns app.result_count
CheckFile(it) ==
  IF it.maxcomplexity # "" /\ ~IsInt(it.maxcomplexity)
  THEN {Raised}
  ELSE Outcomes

\* the command line check_file builds from the settings of the item
CheckFileArgs(maxlength, maxdoclenght, maxcomplexity, showshource, statistics) ==
  (IF maxlength # "" THEN <<"--max-line-length", maxlength>> ELSE <<>>)
  \o (IF maxdoclenght # "" THEN <<"--max-doc-length", maxdoclenght>>
      ELSE <<>>)
  \o (IF maxcomplexity # "" THEN <<"--max-complexity", maxcomplexity>>
      ELSE <<>>)
  \o (IF showshource THEN <<"--show-source">> ELSE <<>>)
  \o (IF statistics THEN <<"--statistics">> ELSE <<>>)

\* Mutant of CheckFileIgnore: the directive is assigned even when it is empty
CheckFileIgnoreAlways(flake8ignore, configured) ==
  [assigned |-> TRUE, ignore |-> flake8ignore]

\* if flake8ignore: app.options.ignore = flake8ignore
\* (configured: the ignore list the engine's own configuration produced)
CheckFileIgnore(flake8ignore, configured) ==
  IF flake8ignore # <<>>
  THEN [assigned |-> TRUE, ignore |-> flake8ignore]
  ELSE [assigned |-> FALSE, ignore |-> configured]

\* check_file has not been called
EngIdle ==
  [pc |-> "idle", flake8ignore |-> <<>>, configured |-> <<>>,
   maxlength |-> "", maxdoclength |-> "", maxcomplexity |-> "",
   showshource |-> FALSE, statistics |-> FALSE,
   args |-> <<>>, raised |-> FALSE, assigned |-> FALSE, ignore |-> <<>>]

(***************************************************************************)
(* Items.                                                                  *)
(***************************************************************************)
\* Flake8Item.__init__ / from_parent, with the attributes of the config
NewItem(path, flake8ignore) ==
  [fspath |-> path, flake8ignore |-> flake8ignore,
   maxlength |-> settings.maxlength, maxdoclength |-> settings.maxdoclength,
   maxcomplexity |-> settings.maxcomplexity,
   showshource |-> settings.showshource, statistics |-> settings.statistics,
   has_mtime |-> FALSE, flake8mtime |-> 0,
   state |-> "Created", calls |-> 0, raised |-> FALSE, found_errors |-> 0]

\* what the runner keeps of an item that has finished: its outcome
Outcome(it) ==
  [fspath |-> it.fspath, state |-> it.state, calls |-> it.calls,
   raised |-> it.raised, found_errors |-> it.found_errors]

\* the exception runtest leaves with: Flake8Error(out, err) when violations
\* were found, the engine's own exception when check_file raised
Exception(o) ==
  IF o.state = "Failed" THEN "Flake8Error"
  ELSE IF o.state = "Error" THEN "EngineError"
  ELSE "none"

\* repr_failure: the captured output for a Flake8Error, the framework's
\* report of the exception otherwise
ReprFailure(o) ==
  IF Exception(o) = "Flake8Error" THEN "args[0]" ELSE "super.repr_failure"

\* no item has finished yet
NoItem ==
  [fspath |-> <<>>, state |-> "None", calls |-> 0, raised |-> FALSE,
   found_errors |-> 0]

(***************************************************************************)
(* pytest hooks.                                                           *)
(***************************************************************************)
Init ==
  /\ phase = "idle"
  /\ option_flake8 = FALSE
  /\ has_cache = FALSE
  /\ ignorelines = <<>>
  /\ settings = DefaultSettings
  /\ _flake8ignore = NoneV
  /\ _flake8mtimes = [set |-> FALSE, map |-> EmptyMap]
  /\ cache_store = [set |-> FALSE, map |-> EmptyMap]
  /\ mtime = [p \in Files |-> 0]
  /\ items = <<>>
  /\ finished = NoItem
  /\ passedNow = {}
  /\ failed = "no"
  /\ storeWrites = 0
  /\ lastExit = "none"
  /\ igpc = "build"
  /\ query = NoQuery
  /\ eng = EngIdle

\* pytest_configure, in a new process
Configure(fl, hc, ini) ==
  /\ phase = "idle"
  /\ phase' = "collect"
  /\ option_flake8' = fl
  /\ has_cache' = hc
  \* the ini values are read only when --flake8 is given
  /\ ignorelines' = IF fl THEN ini.ignore ELSE <<>>
  /\ settings' = IF fl THEN ini.settings ELSE DefaultSettings
  /\ _flake8ignore' = IF fl THEN Some(IgnorerInit(ini.ignore)) ELSE NoneV
  /\ _flake8mtimes' = IF fl /\ hc THEN [set |-> TRUE, map |-> CacheGet]
                      ELSE [set |-> FALSE, map |-> EmptyMap]
  /\ storeWrites' = 0
  /\ lastExit' = "running"
  /\ UNCHANGED <<cache_store, mtime, items, finished, passedNow, failed,
                 ignVars, engVars>>

\* Mutant of CollectFile: the extension of the file is not looked at
CollectFileAnyExt(path) ==
  IF option_flake8
  THEN LET flake8ignore == IgnorerCall(_flake8ignore.v, path)
       IN IF ~flake8ignore.none THEN Some(<<NewItem(path, flake8ignore.v)>>)
          ELSE NoneV
  ELSE NoneV

\* Mutant of CollectFile: the matcher's result is not tested for None
CollectFileKeepSentinel(path) ==
  IF option_flake8 /\ Ext(path) \in settings.exts
  THEN LET flake8ignore == IgnorerCall(_flake8ignore.v, path)
       IN Some(<<NewItem(path, flake8ignore.v)>>)
  ELSE NoneV

\* pytest_collect_file(path, parent): the item, or None
CollectFile(path) ==
  IF option_flake8 /\ Ext(path) \in settings.exts
  THEN LET flake8ignore == IgnorerCall(_flake8ignore.v, path)
       IN IF ~flake8ignore.none THEN Some(<<NewItem(path, flake8ignore.v)>>)
          ELSE NoneV
  ELSE NoneV

\* the session collects path
Collect(path) ==
  /\ phase = "collect"
  /\ Len(items) < MaxItems
  /\ LET r == CollectFile(path)
     IN items' = IF r.none THEN items ELSE items \o r.v
  /\ UNCHANGED <<phase, cfgVars, ignorelines, _flake8ignore, _flake8mtimes,
                 cache_store, mtime, finished, passedNow, failed,
                 storeWrites, lastExit, ignVars, engVars>>

\* collection is over, the items run in order
StartRun ==
  /\ phase = "collect"
  /\ phase' = "run"
  /\ UNCHANGED <<cfgVars, ignorelines, _flake8ignore, _flake8mtimes,
                 cache_store, mtime, items, finished, passedNow, failed,
                 storeWrites, lastExit, ignVars, engVars>>

\* Mutant of SetupItem: an item with a complexity threshold is never skipped
SetupItemSettingsAware(it) ==
  LET flake8mtimes == IF _flake8mtimes.set THEN _flake8mtimes.map
                      ELSE EmptyMap
      m == mtime[it.fspath]
      old == MapGet(flake8mtimes, it.fspath, DefaultOld)
  IN [it EXCEPT !.has_mtime = TRUE, !.flake8mtime = m,
                !.state = IF SetupSkips(old, m, it.flake8ignore)
                             /\ it.maxcomplexity = ""
                          THEN "Skipped" ELSE "Ready"]

\* Flake8Item.setup of item it: the item after it
SetupItem(it) ==
  LET flake8mtimes == IF _flake8mtimes.set THEN _flake8mtimes.map
                      ELSE EmptyMap
      m == mtime[it.fspath]
      old == MapGet(flake8mtimes, it.fspath, DefaultOld)
  IN [it EXCEPT !.has_mtime = TRUE, !.flake8mtime = m,
                !.state = IF SetupSkips(old, m, it.flake8ignore)
                          THEN "Skipped" ELSE "Ready"]

\* the runner sets up the next item; a skipped item has finished
Setup ==
  /\ phase = "run"
  /\ items # <<>>
  /\ items[1].state = "Created"
  /\ LET it == SetupItem(items[1])
     IN IF it.state = "Skipped"
        THEN /\ items' = Tail(items)
             /\ finished' = Outcome(it)
        ELSE /\ items' = [items EXCEPT ![1] = it]
             /\ UNCHANGED finished
  /\ UNCHANGED <<phase, cfgVars, ignorelines, _flake8ignore, _flake8mtimes,
                 cache_store, mtime, passedNow, failed, storeWrites,
                 lastExit, ignVars, engVars>>

\* Mutant of RuntestItem: the engine is invoked a second time
RuntestItemTwice(it, r) ==
  [it EXCEPT !.calls = @ + 2, !.raised = r.raised,
             !.found_errors = r.count,
             !.state = IF r.raised THEN "Error"
                       ELSE IF r.count # 0 THEN "Failed" ELSE "Passed"]

\* Mutant of RuntestItem: an exception of the engine is swallowed and the
\* check counts as clean
RuntestItemSuppress(it, r) ==
  [it EXCEPT !.calls = @ + 1, !.raised = r.raised,
             !.found_errors = r.count,
             !.state = IF r.raised THEN "Passed"
                       ELSE IF r.count # 0 THEN "Failed" ELSE "Passed"]

\* runtest of item it with the engine's outcome r: the item after it
RuntestItem(it, r) ==
  [it EXCEPT !.calls = @ + 1, !.raised = r.raised,
             !.found_errors = r.count,
             !.state = IF r.raised THEN "Error"
                       ELSE IF r.count # 0 THEN "Failed" ELSE "Passed"]

\* Mutant of RuntestWrite: the entry is written whatever the check found
RuntestWriteAlways(it, st) ==
  IF _flake8mtimes.set
  THEN [_flake8mtimes EXCEPT
          !.map = MapSet(@, it.fspath,
                         TupleOf(it.flake8mtime, it.flake8ignore))]
  ELSE _flake8mtimes

\* Mutant of RuntestWrite: the timestamp is read again when the entry is
\* written
RuntestWriteCurrentMtime(it, st) ==
  IF st = "Passed" /\ _flake8mtimes.set
  THEN [_flake8mtimes EXCEPT
          !.map = MapSet(@, it.fspath,
                         TupleOf(mtime[it.fspath], it.flake8ignore))]
  ELSE _flake8mtimes

\* the cache map after runtest of item it has ended in state st
RuntestWrite(it, st) ==
  IF st = "Passed" /\ _flake8mtimes.set
  THEN [_flake8mtimes EXCEPT
          !.map = MapSet(@, it.fspath,
                         TupleOf(it.flake8mtime, it.flake8ignore))]
  ELSE _flake8mtimes

\* Flake8Item.runtest, the engine answering with outcome r
Runtest(r) ==
  /\ phase = "run"
  /\ items # <<>>
  /\ items[1].state = "Ready"
  /\ r \in CheckFile(items[1])
  /\ LET it == RuntestItem(items[1], r)
         p == it.fspath
     IN /\ items' = Tail(items)
        /\ finished' = Outcome(it)
        /\ _flake8mtimes' = RuntestWrite(items[1], it.state)
        /\ passedNow' = IF it.state = "Passed" THEN passedNow \cup {p}
                        ELSE passedNow
        /\ failed' = IF p # Tracked THEN failed
                     ELSE IF it.state = "Passed" THEN "no"
                     ELSE IF it.state = "Failed" /\ p \notin passedNow
                          THEN "thisrun"
                     ELSE failed
  /\ UNCHANGED <<phase, cfgVars, ignorelines, _flake8ignore, cache_store,
                 mtime, storeWrites, lastExit, ignVars, engVars>>

\* the process ends: its config object and its items are gone
ProcessGone ==
  /\ phase' = "idle"
  /\ option_flake8' = FALSE
  /\ has_cache' = FALSE
  /\ ignorelines' = <<>>
  /\ settings' = DefaultSettings
  /\ _flake8ignore' = NoneV
  /\ _flake8mtimes' = [set |-> FALSE, map |-> EmptyMap]
  /\ items' = <<>>
  /\ finished' = NoItem
  /\ passedNow' = {}
  /\ failed' = IF failed = "thisrun" THEN "earlier" ELSE failed

\* Mutant of FlushedMap: the map is flushed as it was read at configuration
FlushedMapAsLoaded == CacheGet

\* Mutant of FlushedMap: only the entries written in this run are flushed
FlushedMapOnlyNew ==
  [q \in (DOMAIN _flake8mtimes.map) \cap passedNow |-> _flake8mtimes.map[q]]

\* the value pytest_unconfigure hands to config.cache.set
FlushedMap == _flake8mtimes.map

\* pytest_unconfigure
Unconfigure ==
  /\ phase \in {"collect", "run"}
  /\ IF _flake8mtimes.set
     THEN /\ cache_store' = [set |-> TRUE, map |-> JsonDump(FlushedMap)]
          /\ storeWrites' = storeWrites + 1
     ELSE UNCHANGED <<cache_store, storeWrites>>
  /\ ProcessGone
  /\ lastExit' = "unconfigured"
  /\ UNCHANGED <<mtime, ignVars, engVars>>

\* the process is killed: no teardown hook runs
Abort ==
  /\ phase \in {"collect", "run"}
  /\ ProcessGone
  /\ lastExit' = "aborted"
  /\ UNCHANGED <<cache_store, mtime, storeWrites, ignVars, engVars>>

\* the environment changes a file's modification timestamp
Touch(p, v) ==
  /\ v # mtime[p]
  /\ mtime' = [mtime EXCEPT ![p] = v]
  /\ UNCHANGED <<phase, cfgVars, ignorelines, _flake8ignore, _flake8mtimes,
                 cache_store, items, finished, passedNow, failed,
                 storeWrites, lastExit, ignVars, engVars>>

Next ==
  \/ \E fl \in BOOLEAN, hc \in BOOLEAN, ini \in IniChoices :
        Configure(fl, hc, ini)
  \/ \E p \in Files : Collect(p)
  \/ StartRun
  \/ Setup
  \/ \E r \in Outcomes : Runtest(r)
  \/ Unconfigure
  \/ Abort
  \/ \E p \in Files, v \in 0..MaxMtime : Touch(p, v)

Spec == Init /\ [][Next]_vars

(***************************************************************************)
(* The matcher on its own: a flake8-ignore setting is written token by     *)
(* token, the Ignorer is constructed from it and queried.                  *)
(***************************************************************************)
RECURSIVE TotalTokens(_)
TotalTokens(lines) ==
  IF lines = <<>> THEN 0
  ELSE Len(SplitAll(lines[1])) + TotalTokens(Tail(lines))

InitIgn == Init

IgnAddLine ==
  /\ igpc = "build"
  /\ Len(ignorelines) < MaxLines
  /\ ignorelines' = Append(ignorelines, <<>>)
  /\ UNCHANGED <<runVars, engVars, ignVars, _flake8ignore>>

IgnAddToken(t) ==
  /\ igpc = "build"
  /\ ignorelines # <<>>
  /\ TotalTokens(ignorelines) < MaxTokens
  /\ LET n == Len(ignorelines)
         line == ignorelines[n]
     IN ignorelines' = [ignorelines EXCEPT ![n] =
                          IF line = <<>> THEN t ELSE line \o <<" ">> \o t]
  /\ UNCHANGED <<runVars, engVars, ignVars, _flake8ignore>>

\* Ignorer(config.getini("flake8-ignore"))
IgnConstruct ==
  /\ igpc = "build"
  /\ igpc' = "ready"
  /\ _flake8ignore' = Some(IgnorerInit(ignorelines))
  /\ UNCHANGED <<runVars, engVars, ignorelines, query>>

\* config._flake8ignore(path)
IgnQuery(p) ==
  /\ igpc = "ready"
  /\ query' = [has |-> TRUE, path |-> p,
               result |-> IgnorerCall(_flake8ignore.v, p)]
  /\ UNCHANGED <<runVars, engVars, ignorelines, _flake8ignore, igpc>>

NextIgn ==
  \/ IgnAddLine
  \/ \E t \in Tokens : IgnAddToken(t)
  \/ IgnConstruct
  \/ \E p \in Files : IgnQuery(p)

SpecIgn == InitIgn /\ [][NextIgn]_vars

(***************************************************************************)
(* check_file on its own: it is called with a directive and settings, on   *)
(* an engine whose own configuration gives an ignore list.                 *)
(***************************************************************************)
\* the lists of at most MaxCodes codes
CodeLists ==
  UNION { [1..n -> {E501, W293}] : n \in 0..MaxCodes }

InitEng == Init

\* the caller's arguments and the engine's configuration
EngInput(ign, cfg, ml, mdl, mc, ss, st) ==
  /\ eng.pc = "idle"
  /\ eng' = [EngIdle EXCEPT !.pc = "input", !.flake8ignore = ign,
                            !.configured = cfg, !.maxlength = ml,
                            !.maxdoclength = mdl, !.maxcomplexity = mc,
                            !.showshource = ss, !.statistics = st]
  /\ UNCHANGED <<runVars, ignVars, ignorelines, _flake8ignore>>

\* check_file(path, flake8ignore, maxlength, ...): the engine raises on a
\* command line it cannot parse, before the directive is looked at
EngCheckFile ==
  /\ eng.pc = "input"
  /\ LET args == CheckFileArgs(eng.maxlength, eng.maxdoclength,
                               eng.maxcomplexity, eng.showshource,
                               eng.statistics)
         bad == eng.maxcomplexity # "" /\ ~IsInt(eng.maxcomplexity)
         opt == CheckFileIgnore(eng.flake8ignore, eng.configured)
     IN eng' = IF bad
               THEN [eng EXCEPT !.pc = "called", !.args = args,
                                !.raised = TRUE]
               ELSE [eng EXCEPT !.pc = "called", !.args = args,
                                !.assigned = opt.assigned,
                                !.ignore = opt.ignore]
  /\ UNCHANGED <<runVars, ignVars, ignorelines, _flake8ignore>>

NextEng ==
  \/ \E ign \in CodeLists, cfg \in CodeLists, ml \in {"", "100"},
        mdl \in {"", "72"}, mc \in {"", "10", "x"},
        ss \in BOOLEAN, st \in BOOLEAN :
        EngInput(ign, cfg, ml, mdl, mc, ss, st)
  \/ EngCheckFile

SpecEng == InitEng /\ [][NextEng]_vars

(***************************************************************************)
(* Steps of the runner, told apart by what they change.                    *)
(***************************************************************************)
\* the process goes on
InRun == phase # "idle" /\ phase' # "idle"

\* setup of the first item of the queue
SetupStep ==
  /\ phase = "run" /\ phase' = "run"
  /\ items # <<>> /\ items[1].state = "Created"
  /\ items' # items

\* the first item of the queue finishes (skipped by setup, or after runtest)
TaskEnds ==
  /\ phase = "run" /\ phase' = "run"
  /\ items # <<>> /\ items' = Tail(items)

\* setup leaves the item Ready: the next step of the item is runtest
BecomesReady ==
  /\ Len(items') = Len(items)
  /\ items'[1].state = "Ready"
  /\ items'[1].calls = 0
  /\ finished' = finished

\* setup skips the item: it finishes without a call of the engine
BecomesSkipped ==
  /\ items' = Tail(items)
  /\ finished'.fspath = items[1].fspath
  /\ finished'.state = "Skipped"
  /\ finished'.calls = 0

\* pytest_unconfigure is reached
TeardownStep == phase # "idle" /\ phase' = "idle" /\ lastExit' = "unconfigured"

(***************************************************************************)
(* C1: the in-memory cache map is mutated only by a task whose engine      *)
(* check returned zero violations; a task that ends Failed, one that is    *)
(* skipped in setup and one whose engine call raises leave the whole map   *)
(* unchanged, the entry of their own path included.                        *)
(***************************************************************************)
C1_CacheWrittenOnlyOnPass ==
  [][ InRun =>
        /\ (_flake8mtimes' # _flake8mtimes) =>
              /\ TaskEnds
              /\ finished'.state = "Passed"
              /\ finished'.calls = 1
              /\ ~finished'.raised
              /\ finished'.found_errors = 0
        /\ (TaskEnds /\ finished'.state \in {"Failed", "Skipped", "Error"}) =>
              _flake8mtimes' = _flake8mtimes
        /\ (TaskEnds /\ (finished'.raised \/ finished'.found_errors # 0)) =>
              _flake8mtimes' = _flake8mtimes ]_vars

\* a task has failed while the cache map held an entry for its path
C1_Witness ==
  /\ finished.state = "Failed"
  /\ finished.found_errors > 0
  /\ _flake8mtimes.set
  /\ finished.fspath \in DOMAIN _flake8mtimes.map

(***************************************************************************)
(* C2: a file passed in a run whose teardown flush completed; in a later   *)
(* run its timestamp and ignore directive are the same: setup skips the    *)
(* task and the engine is not invoked.                                     *)
(***************************************************************************)
\* the persisted entry of items[1]'s path, left by the flush of the run in
\* which the path passed last, holds the file's current timestamp and the
\* item's directive, and the path has not passed again in this run
C2_Unchanged ==
  LET p == items[1].fspath IN
  /\ p \in DOMAIN cache_store.map
  /\ cache_store.map[p].mtime = mtime[p]
  /\ cache_store.map[p].ign = items[1].flake8ignore
  /\ p \notin passedNow

\* the teardown flush persists, for every path passed in the run, the entry
\* the pass wrote, as a list
C2_FlushPersistsPasses ==
  (TeardownStep /\ _flake8mtimes.set) =>
     \A p \in passedNow :
        /\ p \in DOMAIN _flake8mtimes.map
        /\ p \in DOMAIN cache_store'.map
        /\ cache_store'.map[p] =
             ListOf(_flake8mtimes.map[p].mtime, _flake8mtimes.map[p].ign)

\* C2 as stated: whatever the second run's plugins are
C2_Original ==
  [][ (SetupStep /\ C2_Unchanged) => BecomesSkipped ]_vars

\* C2 amended: the second run has a cache store
C2_SecondRunSkips ==
  [][ /\ (SetupStep /\ C2_Unchanged /\ has_cache) => BecomesSkipped
      /\ C2_FlushPersistsPasses ]_vars

\* an item was skipped on the entry a previous run persisted
C2_Witness ==
  /\ finished.state = "Skipped"
  /\ finished.calls = 0
  /\ finished.fspath \in DOMAIN cache_store.map
  /\ finished.fspath \notin passedNow

(***************************************************************************)
(* C3: after a task for a path ends Failed, the task for that path is set  *)
(* up as Ready, and the engine invoked, in every later run until the path  *)
(* passes.                                                                 *)
(***************************************************************************)
\* setup of an item of Tracked, which failed in an earlier run and has not
\* passed since
C3_SetupAfterFailure ==
  SetupStep /\ items[1].fspath = Tracked /\ failed = "earlier"

\* the cache map holds an entry for Tracked, left by an earlier pass, with
\* the file's current timestamp and the item's directive
C3_OlderEntryMatches ==
  /\ _flake8mtimes.set
  /\ Tracked \in DOMAIN _flake8mtimes.map
  /\ _flake8mtimes.map[Tracked].mtime = mtime[Tracked]
  /\ _flake8mtimes.map[Tracked].ign = items[1].flake8ignore

C4_TimestampInvalidates ==
  [][ \A p \in Files :
        ( /\ SetupStep /\ items[1].fspath = p
          /\ p \in DOMAIN cache_store.map
          /\ cache_store.map[p].mtime # mtime[p] ) => BecomesReady ]_vars

\* an item is Ready with the persisted directive unchanged and the
\* timestamp changed
C4_Witness ==
  /\ phase = "run"
  /\ _flake8mtimes.set
  /\ items # <<>>
  /\ items[1].state = "Ready"
  /\ items[1].fspath \in DOMAIN cache_store.map
  /\ items[1].fspath \notin passedNow
  /\ cache_store.map[items[1].fspath].ign = items[1].flake8ignore
  /\ cache_store.map[items[1].fspath].mtime # items[1].flake8mtime

(***************************************************************************)
(* C5: a file passed in a run; in the next run its timestamp is unchanged  *)
(* but the ignore directive of its path differs in any way (codes, order,  *)
(* multiplicity) from the stored one: setup does not skip the task.        *)
(***************************************************************************)
C5_DirectiveInvalidates ==
  [][ \A p \in Files :
        ( /\ SetupStep /\ items[1].fspath = p
          /\ p \in DOMAIN cache_store.map
          /\ cache_store.map[p].ign # items[1].flake8ignore ) => BecomesReady
    ]_vars

CodeSet(ign) == {ign[i] : i \in 1..Len(ign)}

\* an item is Ready with the persisted timestamp unchanged and a directive
\* of the same codes in another order or multiplicity
C5_Witness ==
  /\ phase = "run"
  /\ _flake8mtimes.set
  /\ items # <<>>
  /\ items[1].state = "Ready"
  /\ items[1].fspath \in DOMAIN cache_store.map
  /\ items[1].fspath \notin passedNow
  /\ cache_store.map[items[1].fspath].mtime = items[1].flake8mtime
  /\ cache_store.map[items[1].fspath].ign # items[1].flake8ignore
  /\ CodeSet(cache_store.map[items[1].fspath].ign) = CodeSet(items[1].flake8ignore)

(***************************************************************************)
(* C9: pytest_collect_file produces an item for a file if and only if      *)
(* linting is enabled, the file's extension is among the configured ones   *)
(* and the matcher's result for the path is not the skip sentinel; the     *)
(* item carries the matcher's result as its ignore directive.              *)
(***************************************************************************)
C9_Eligible(p) ==
  /\ option_flake8
  /\ Ext(p) \in settings.exts
  /\ ~IgnorerCall(_flake8ignore.v, p).none

C9_CollectFilter ==
  phase = "collect" =>
    /\ \A p \in Files :
          /\ (~CollectFile(p).none) <=> C9_Eligible(p)
          /\ (~CollectFile(p).none) =>
                /\ Len(CollectFile(p).v) = 1
                /\ CollectFile(p).v[1].fspath = p
                /\ CollectFile(p).v[1].state = "Created"
                /\ Some(CollectFile(p).v[1].flake8ignore)
                     = IgnorerCall(_flake8ignore.v, p)
    /\ \A k \in 1..Len(items) :
          /\ C9_Eligible(items[k].fspath)
          /\ Some(items[k].flake8ignore)
               = IgnorerCall(_flake8ignore.v, items[k].fspath)

\* an item with codes to ignore was collected, and another file with a
\* configured extension gets none because a suppress-all rule applies to it
C9_Witness ==
  /\ phase = "collect"
  /\ items # <<>>
  /\ items[1].flake8ignore # <<>>
  /\ \E p \in Files :
        /\ Ext(p) \in settings.exts
        /\ IgnorerCall(_flake8ignore.v, p).none
        /\ CollectFile(p).none

(***************************************************************************)
(* C10: in a run with linting enabled and a cache store, the persisted     *)
(* store is written exactly once, at teardown, with the in-memory cache    *)
(* map as it stands then; no task writes it, and the passes of a run that  *)
(* never reaches teardown are not persisted.                               *)
(***************************************************************************)
C10_FlushedOnceAtTeardown ==
  [][ /\ (phase' # "idle") =>
            (cache_store' = cache_store /\ storeWrites' = 0)
      /\ (TeardownStep /\ option_flake8 /\ has_cache) =>
            /\ storeWrites' = 1
            /\ cache_store'.set
            /\ DOMAIN cache_store'.map = DOMAIN _flake8mtimes.map
            /\ \A p \in DOMAIN _flake8mtimes.map :
                  /\ cache_store'.map[p].mtime = _flake8mtimes.map[p].mtime
                  /\ cache_store'.map[p].ign = _flake8mtimes.map[p].ign
      /\ (phase # "idle" /\ phase' = "idle" /\ lastExit' = "aborted") =>
            cache_store' = cache_store ]_vars

\* a teardown has persisted a pass of its run
C10_Witness ==
  /\ phase = "idle"
  /\ lastExit = "unconfigured"
  /\ storeWrites = 1
  /\ DOMAIN cache_store.map # {}

(***************************************************************************)
(* C6: a line whose first whitespace-separated token is one uppercase      *)
(* letter followed by three digits (any letter: E501, W293, F401, C901)    *)
(* is parsed to a rule without glob whose codes are the tokens of the      *)
(* whole line, so that the rule applies to every path.                     *)
(***************************************************************************)
C6_CodeShaped(tok) ==
  /\ Len(tok) = 4
  /\ C6_IsUpper(tok[1])
  /\ IsDigit(tok[2]) /\ IsDigit(tok[3]) /\ IsDigit(tok[4])

\* the line up to its comment
C6_Uncommented(line) ==
  IF Find(line, "#") = -1 THEN line ELSE Prefix(line, Find(line, "#"))

\* the codes of a rule made of all the tokens of the line (the suppress-all
\* sentinel when ALL is among them)
C6_AllTokens(line) ==
  LET toks == SplitAll(C6_Uncommented(line))
  IN IF Contains(toks, ALL) THEN NoneV ELSE Some(toks)

C6_CodeShapedNeverGlob ==
  igpc = "ready" =>
    \A k \in 1..Len(ignorelines) :
       LET toks == SplitAll(C6_Uncommented(ignorelines[k]))
           rule == _flake8ignore.v[k]
       IN (toks # <<>> /\ C6_CodeShaped(toks[1])) =>
             /\ rule.glob.none
             /\ rule.ign = C6_AllTokens(ignorelines[k])
             /\ \A p \in Files : RuleApplies(rule, p)

(***************************************************************************)
(* C7: the query returns the skip sentinel if and only if at least one     *)
(* rule that applies to the path is a suppress-all rule, wherever it sits  *)
(* in the list and whatever rules apply before or after it.                *)
(***************************************************************************)
C7_SomeSuppressAllApplies(ignores, path) ==
  \E k \in 1..Len(ignores) :
     RuleApplies(ignores[k], path) /\ ignores[k].ign.none

C7_SkipIffSuppressAll ==
  query.has =>
    (query.result.none
       <=> C7_SomeSuppressAllApplies(_flake8ignore.v, query.path))

\* the sentinel was returned for a suppress-all rule that comes after an
\* applying rule with codes
C7_Witness ==
  /\ query.has
  /\ query.result.none
  /\ \E j, k \in 1..Len(_flake8ignore.v) :
        /\ j < k
        /\ RuleApplies(_flake8ignore.v[j], query.path)
        /\ ~_flake8ignore.v[j].ign.none
        /\ _flake8ignore.v[j].ign.v # <<>>
        /\ ~_flake8ignore.v[j].glob.none
        /\ RuleApplies(_flake8ignore.v[k], query.path)
        /\ _flake8ignore.v[k].ign.none

(***************************************************************************)
(* C8: for a path to which no suppress-all rule applies, the query returns *)
(* the concatenation, in rule order, of the codes of the rules that apply, *)
(* duplicates kept; the empty list when no rule applies, and for every     *)
(* path when the configuration is empty.                                   *)
(***************************************************************************)
\* the codes of rules n..1 that apply to path, last rule last
RECURSIVE C8_CodesUpTo(_, _, _)
C8_CodesUpTo(ignores, path, n) ==
  IF n = 0 THEN <<>>
  ELSE C8_CodesUpTo(ignores, path, n - 1)
       \o (IF RuleApplies(ignores[n], path) THEN ignores[n].ign.v ELSE <<>>)

C8_ConcatInOrder ==
  (query.has /\ ~C7_SomeSuppressAllApplies(_flake8ignore.v, query.path)) =>
    /\ ~query.result.none
    /\ query.result.v
         = C8_CodesUpTo(_flake8ignore.v, query.path, Len(_flake8ignore.v))
    /\ (\A k \in 1..Len(_flake8ignore.v) :
           ~RuleApplies(_flake8ignore.v[k], query.path))
         => query.result.v = <<>>
    /\ ignorelines = <<>> => query.result.v = <<>>

\* two rules that apply gave the same code, and the result holds it twice
C8_Witness ==
  /\ query.has
  /\ ~query.result.none
  /\ \E i, j \in 1..Len(query.result.v) :
        i < j /\ query.result.v[i] = query.result.v[j]
  /\ \E j, k \in 1..Len(_flake8ignore.v) :
        /\ j < k
        /\ RuleApplies(_flake8ignore.v[j], query.path)
        /\ RuleApplies(_flake8ignore.v[k], query.path)
        /\ _flake8ignore.v[j].ign.v # <<>>
        /\ _flake8ignore.v[k].ign.v # <<>>

(***************************************************************************)
(* C11: when the engine call itself raises during runtest, the task ends   *)
(* in an error outcome that is not the lint-violation failure (no          *)
(* Flake8Error with the captured output), the error is not suppressed, and *)
(* the cache entry of the path is not written.                             *)
(***************************************************************************)
C11_EngineErrorPropagates ==
  [][ (TaskEnds /\ finished'.raised) =>
        /\ items[1].state = "Ready"
        /\ finished'.state = "Error"
        /\ finished'.state \notin {"Passed", "Skipped", "Failed"}
        /\ Exception(finished') = "EngineError"
        /\ ReprFailure(finished') # "args[0]"
        /\ finished'.fspath \notin passedNow' \ passedNow
        /\ _flake8mtimes' = _flake8mtimes ]_vars

\* a task has ended in the error outcome on a malformed complexity threshold,
\* in a run with a cache map, and no entry was written for its path
C11_Witness ==
  /\ finished.state = "Error"
  /\ finished.raised
  /\ settings.maxcomplexity = "x"
  /\ _flake8mtimes.set
  /\ finished.fspath \notin DOMAIN _flake8mtimes.map

(***************************************************************************)
(* C12: the key set of the cache map never shrinks, in memory and as       *)
(* persisted: no operation of the plugin removes an entry, the entries of  *)
(* paths no longer discovered, now skipped by ALL or now failing included. *)
(***************************************************************************)
C12_KeysNeverRemoved ==
  [][ /\ DOMAIN cache_store.map \subseteq DOMAIN cache_store'.map
      /\ InRun => DOMAIN _flake8mtimes.map \subseteq DOMAIN _flake8mtimes'.map
      /\ (phase = "idle" /\ _flake8mtimes'.set) =>
            DOMAIN _flake8mtimes'.map = DOMAIN cache_store.map
      /\ (TeardownStep /\ _flake8mtimes.set) =>
            DOMAIN cache_store'.map = DOMAIN _flake8mtimes.map ]_vars

\* a run has flushed the store, and the store still holds the entry of a
\* path that failed and did not pass in that run
C12_Witness ==
  /\ phase = "idle"
  /\ lastExit = "unconfigured"
  /\ storeWrites = 1
  /\ failed = "earlier"
  /\ Tracked \in DOMAIN cache_store.map

(***************************************************************************)
(* C13: a task that ends Passed sets the cache entry of its own path to    *)
(* the pair (timestamp read during its setup, its ignore directive) and    *)
(* leaves the entries of the other paths unchanged; the stored timestamp   *)
(* is the one of setup even if the file's timestamp has changed since.     *)
(***************************************************************************)
\* the first item of the queue ends Passed
C13_TaskPasses == TaskEnds /\ finished'.state = "Passed"

\* the entry of the item's path is the pair of the item's setup
C13_EntryWritten ==
  LET p == items[1].fspath IN
  /\ p \in DOMAIN _flake8mtimes'.map
  /\ _flake8mtimes'.map[p]
       = TupleOf(items[1].flake8mtime, items[1].flake8ignore)

\* C13 as stated: whether or not the run has a cache map
C13_Original ==
  [][ C13_TaskPasses => C13_EntryWritten ]_vars

\* C13 amended: in a run with a cache map; without one the pass writes nothing
C13_PassWritesSetupPair ==
  [][ /\ (SetupStep /\ BecomesReady) =>
            /\ items'[1].has_mtime
            /\ items'[1].flake8mtime = mtime[items[1].fspath]
            /\ items'[1].flake8ignore = items[1].flake8ignore
      /\ (mtime' # mtime) => items' = items
      /\ (C13_TaskPasses /\ _flake8mtimes.set) =>
            /\ C13_EntryWritten
            /\ DOMAIN _flake8mtimes'.map
                 = DOMAIN _flake8mtimes.map \cup {items[1].fspath}
            /\ \A q \in DOMAIN _flake8mtimes.map \ {items[1].fspath} :
                  _flake8mtimes'.map[q] = _flake8mtimes.map[q]
      /\ (C13_TaskPasses /\ ~_flake8mtimes.set) =>
            _flake8mtimes' = _flake8mtimes ]_vars

\* a pass has written an entry whose timestamp is not the file's current one,
\* beside the entry of another path
C13_Witness ==
  /\ finished.state = "Passed"
  /\ _flake8mtimes.set
  /\ finished.fspath \in DOMAIN _flake8mtimes.map
  /\ _flake8mtimes.map[finished.fspath].shape = "tuple"
  /\ _flake8mtimes.map[finished.fspath].mtime # mtime[finished.fspath]
  /\ \E q \in DOMAIN _flake8mtimes.map : q # finished.fspath

(***************************************************************************)
(* C14: each task goes Created -> setup -> {Skipped, Ready} -> runtest ->  *)
(* {Passed, Failed}: the engine is invoked at most once per task and only  *)
(* from Ready, a task skipped in setup never invokes the engine, and a     *)
(* task that is Skipped, Passed or Failed makes no further transition and  *)
(* no further cache write.                                                 *)
(***************************************************************************)
\* the items still in the queue have not finished and have not called the
\* engine; only the first of them can have been set up
C14_QueueNotFinished ==
  \A k \in 1..Len(items) :
     /\ items[k].state \in {"Created", "Ready"}
     /\ items[k].calls = 0
     /\ (k > 1) => items[k].state = "Created"
     /\ (items[k].state = "Ready") <=> items[k].has_mtime

\* the steps of a run, with the states runtest can end in
C14_Steps(ends) ==
  /\ C14_QueueNotFinished
  /\ finished.calls <= 1
  /\ (finished.state = "Skipped") => finished.calls = 0
  \* the only transition of an item that stays in the queue is setup
  /\ (InRun /\ items' # items /\ Len(items') = Len(items)) =>
        /\ items[1].state = "Created" /\ items'[1].state = "Ready"
        /\ Tail(items') = Tail(items)
        /\ _flake8mtimes' = _flake8mtimes
  \* an item leaves the queue skipped by setup, or after one engine call
  /\ TaskEnds =>
        \/ /\ items[1].state = "Created"
           /\ finished'.state = "Skipped" /\ finished'.calls = 0
           /\ _flake8mtimes' = _flake8mtimes
        \/ /\ items[1].state = "Ready"
           /\ finished'.state \in ends /\ finished'.calls = 1
  \* what has finished changes no more, and writes no more
  /\ (InRun /\ finished' # finished) => TaskEnds
  /\ (InRun /\ _flake8mtimes' # _flake8mtimes) =>
        (TaskEnds /\ items[1].state = "Ready")

\* C14 as stated: runtest ends Passed or Failed
C14_Original ==
  [][ C14_Steps({"Passed", "Failed"}) ]_vars

\* C14 amended: runtest ends Passed, Failed or, when the engine raises, in
\* the error outcome
C14_StateMachine ==
  [][ C14_Steps({"Passed", "Failed", "Error"}) ]_vars

\* a task was skipped by setup, and the run goes on with the next task
C14_Witness ==
  /\ phase = "run"
  /\ finished.state = "Skipped"
  /\ finished.calls = 0
  /\ items # <<>>
  /\ items[1].state = "Ready"

(***************************************************************************)
(* C15: the engine's ignore option is replaced by the task's ignore        *)
(* directive exactly when the directive is a non-empty list; with the      *)
(* empty list the option stays as the engine's own configuration made it.  *)
(***************************************************************************)
C15_IgnoreOverride ==
  (eng.pc = "called" /\ ~eng.raised) =>
     /\ eng.assigned <=> (eng.flake8ignore # <<>>)
     /\ eng.assigned => eng.ignore = eng.flake8ignore
     /\ (eng.flake8ignore = <<>>) => eng.ignore = eng.configured

\* check_file ran with an empty directive on an engine configured to ignore
\* codes, and the engine kept its list
C15_Witness ==
  /\ eng.pc = "called"
  /\ ~eng.raised
  /\ eng.flake8ignore = <<>>
  /\ eng.configured # <<>>
  /\ eng.ignore = eng.configured

(***************************************************************************)
(* C16: the text of a line from the first '#' on gives the rule neither a  *)
(* glob nor a code: the rule is the one parsed from the text before the    *)
(* '#'; an empty line and a line that is only a comment give a rule        *)
(* without glob and without codes, which changes no query result.          *)
(***************************************************************************)
\* the sequence without its k-th element
C16_Without(seq, k) ==
  [j \in 1..(Len(seq) - 1) |-> IF j < k THEN seq[j] ELSE seq[j + 1]]

\* the text behind the first '#' of the line
C16_Comment(line) ==
  IF Find(line, "#") = -1 THEN <<>>
  ELSE SubSeq(line, Find(line, "#") + 2, Len(line))

C16_CommentIgnored ==
  igpc = "ready" =>
    \A k \in 1..Len(ignorelines) :
       LET pre == C6_Uncommented(ignorelines[k])
           toks == SplitAll(pre)
           rule == _flake8ignore.v[k]
       IN /\ rule = ParseLine(pre)
          /\ ~rule.glob.none =>
                (toks # <<>> /\ rule.glob.v = toks[1])
          /\ ~rule.ign.none =>
                \A j \in 1..Len(rule.ign.v) : Contains(toks, rule.ign.v[j])
          /\ rule.ign.none => Contains(toks, ALL)
          /\ (toks = <<>>) =>
                /\ rule = [glob |-> NoneV, ign |-> Some(<<>>)]
                /\ \A p \in Files :
                      IgnorerCall(_flake8ignore.v, p)
                        = IgnorerCall(C16_Without(_flake8ignore.v, k), p)

\* a rule with codes was parsed from a line whose comment holds ALL, beside a
\* line that is only a comment, and a path was queried
C16_Witness ==
  /\ igpc = "ready"
  /\ query.has
  /\ \E k, n \in 1..Len(ignorelines) :
        /\ Find(ignorelines[k], "#") > 0
        /\ Contains(SplitAll(C16_Comment(ignorelines[k])), ALL)
        /\ ~_flake8ignore.v[k].ign.none
        /\ _flake8ignore.v[k].ign.v # <<>>
        /\ Find(ignorelines[n], "#") = 0
        /\ _flake8ignore.v[n] = [glob |-> NoneV, ign |-> Some(<<>>)]

(***************************************************************************)
(* C17: setup skips a task only on an entry that was loaded from the       *)
(* persisted store at configuration and not rewritten in the current run:  *)
(* a path without entry is never skipped, whatever its timestamp (0        *)
(* included) and directive (the empty list included), and the entry a pass *)
(* wrote earlier in the run never makes a later setup of the path skip.    *)
(***************************************************************************)
C17_SkipOnlyOnLoadedEntry ==
  [][ SetupStep =>
        LET p == items[1].fspath IN
        /\ BecomesSkipped =>
              /\ _flake8mtimes.set
              /\ p \in DOMAIN _flake8mtimes.map
              /\ p \in DOMAIN cache_store.map
              /\ _flake8mtimes.map[p] = cache_store.map[p]
              /\ p \notin passedNow
        /\ (~_flake8mtimes.set \/ p \notin DOMAIN _flake8mtimes.map) =>
              BecomesReady
        /\ (p \in passedNow) => BecomesReady ]_vars

\* a second item of a path is Ready although the pass of the first one, in
\* the same run, wrote the entry of this timestamp and directive
C17_Witness ==
  /\ phase = "run"
  /\ items # <<>>
  /\ items[1].state = "Ready"
  /\ items[1].fspath \in passedNow
  /\ _flake8mtimes.set
  /\ _flake8mtimes.map[items[1].fspath]
       = TupleOf(items[1].flake8mtime, items[1].flake8ignore)

(***************************************************************************)
(* C18: the skip decision of setup is a function only of the path's cache  *)
(* entry, the file's current timestamp and the task's ignore directive:    *)
(* with these three the same, the decision is the same whatever the line   *)
(* length, doc length, complexity, show-source and statistics settings     *)
(* are, so changing only those after a pass does not force a re-check.     *)
(***************************************************************************)
\* the item with the settings s instead of its own
C18_WithSettings(it, s) ==
  [it EXCEPT !.maxlength = s.maxlength, !.maxdoclength = s.maxdoclength,
             !.maxcomplexity = s.maxcomplexity,
             !.showshource = s.showshource, !.statistics = s.statistics]

\* the decision from the entry (None: no entry), the timestamp and the
\* directive
C18_Decision(entry, m, ign) ==
  IF ~entry.none /\ entry.v.shape = "list" /\ entry.v.mtime = m
     /\ entry.v.ign = ign
  THEN "Skipped" ELSE "Ready"

\* the entry setup finds for path p
C18_Entry(p) ==
  IF _flake8mtimes.set /\ p \in DOMAIN _flake8mtimes.map
  THEN Some(_flake8mtimes.map[p]) ELSE NoneV

C18_SkipIgnoresSettings ==
  [][ SetupStep =>
        LET it == items[1]
            d == C18_Decision(C18_Entry(it.fspath), mtime[it.fspath],
                              it.flake8ignore)
        IN /\ (d = "Skipped") <=> BecomesSkipped
           /\ (d = "Ready") <=> BecomesReady
           /\ \A s \in {DefaultSettings, FullSettings, BadSettings} :
                 SetupItem(C18_WithSettings(it, s)).state = d ]_vars

\* a task was skipped in a run whose complexity threshold lets no check
\* pass: the entry is the one of a pass under other settings
C18_Witness ==
  /\ phase = "run"
  /\ finished.state = "Skipped"
  /\ settings = BadSettings
  /\ finished.fspath \in DOMAIN cache_store.map

(***************************************************************************)
(* C19: every item pytest_collect_file produces has a list as its ignore   *)
(* directive, never the skip sentinel, and so every cache entry such an    *)
(* item writes holds a list of codes as its second component.              *)
(***************************************************************************)
\* the directive is the list the matcher returned for the path, not None
C19_ListFromMatcher(p, ign) ==
  LET r == IgnorerCall(_flake8ignore.v, p)
  IN /\ ~r.none
     /\ ign = r.v
     /\ ~Contains(ign, ALL)

C19_DirectiveIsList ==
  [][ /\ (phase = "collect" /\ phase' = "collect" /\ items' # items) =>
            /\ Len(items') = Len(items) + 1
            /\ C19_ListFromMatcher(items'[Len(items')].fspath,
                                   items'[Len(items')].flake8ignore)
      /\ (C13_TaskPasses /\ _flake8mtimes.set) =>
            /\ C19_ListFromMatcher(items[1].fspath, items[1].flake8ignore)
            /\ _flake8mtimes'.map[items[1].fspath].ign
                 = items[1].flake8ignore ]_vars

\* an item has written an entry with codes, in a run whose configuration
\* has a suppress-all rule
C19_Witness ==
  /\ phase = "run"
  /\ _flake8mtimes.set
  /\ finished.state = "Passed"
  /\ finished.fspath \in DOMAIN _flake8mtimes.map
  /\ _flake8mtimes.map[finished.fspath].shape = "tuple"
  /\ _flake8mtimes.map[finished.fspath].ign # <<>>
  /\ \E k \in 1..Len(_flake8ignore.v) : _flake8ignore.v[k].ign.none

====
